---- MODULE Spec2Model ----
(***************************************************************************)
(* Noteburst /v1/ notebook API models (sqr-075 example code).              *)
(*                                                                         *)
(* PostNotebookRequest.get_ipynb_as_str  normalises a posted notebook to   *)
(* a string; NotebookResponse.from_job_metadata projects an arq job's      *)
(* metadata and optional result to the response document.  The arq queue   *)
(* and the HTTP handlers that call the two models are not part of the      *)
(* example code; they are modelled as the environment that feeds them.     *)
(*                                                                         *)
(* Python Optional[X] values are modelled as sequences: << >> is None and  *)
(* <<x>> is the value x.                                                   *)
(***************************************************************************)
EXTENDS Integers, Sequences, FiniteSets, TLC

VARIABLES
    body,            \* job id -> the JSON document the client POSTed (None before)
    post_request,    \* job id -> the PostNotebookRequest instance parsed from it
    queue,           \* job id -> the job as the arq queue holds it (None before)
    pc,              \* handler -> position of the GET handler
    job,             \* handler -> JobMetadata argument of from_job_metadata
    job_result,      \* handler -> JobResult argument (None when not supplied)
    include_source,  \* handler -> include_source argument
    request,         \* handler -> the client Request argument
    response         \* handler -> the NotebookResponse returned (None before)

vars == <<body, post_request, queue, pc, job, job_result, include_source,
          request, response>>

None == << >>
Some(x) == <<x>>

\* ------------------------------------------------------------------ bounds
\* Wall-clock readings (enqueue, start and finish times) range over 0..MaxTime.
MaxTime == 1

Times == 0 .. MaxTime

JobIds == {"abc123", "def456"}

Handlers == {"h1", "h2"}

\* ------------------------------------------------------- interface models
\* arq.jobs.JobStatus, the type of NotebookResponse.status.
JobStatus == {"deferred", "queued", "in_progress", "complete", "not_found"}

\* Default of the kernel_name field.
kernel_name_field == "LSST"

\* Default of the enable_retry field.
enable_retry_field == TRUE

\* Join the strings of a sequence with a separator.
RECURSIVE Join(_, _)
Join(strs, sep) ==
    IF Len(strs) = 0 THEN ""
    ELSE IF Len(strs) = 1 THEN strs[1]
    ELSE strs[1] \o sep \o Join(Tail(strs), sep)

\* json.dumps with its default separators (", " and ": ").  A JSON value is
\* [t |-> "str" | "int" | "list" | "dict", v |-> ...]; a dict is the sequence
\* of its <<key, value>> items in insertion order.  The strings of the model
\* hold no character that json.dumps escapes.
RECURSIVE json_dumps(_)
json_dumps(o) ==
    CASE o.t = "str" -> "\"" \o o.v \o "\""
      [] o.t = "int" -> ToString(o.v)
      [] o.t = "list" ->
            "[" \o Join([i \in 1 .. Len(o.v) |-> json_dumps(o.v[i])], ", ") \o "]"
      [] o.t = "dict" ->
            "{" \o Join([i \in 1 .. Len(o.v) |->
                            "\"" \o o.v[i][1] \o "\": " \o json_dumps(o.v[i][2])],
                        ", ") \o "}"

\* Faulty variant: the kernel name of the body is dropped for the default.
PostNotebookRequest_KernelIgnored(b) ==
    [ipynb |-> b.ipynb,
     kernel_name |-> kernel_name_field,
     enable_retry |-> IF b.enable_retry = None THEN enable_retry_field
                      ELSE b.enable_retry[1]]

\* PostNotebookRequest(**body): the fields the body omits take their defaults.
PostNotebookRequest(b) ==
    [ipynb |-> b.ipynb,
     kernel_name |-> IF b.kernel_name = None THEN kernel_name_field
                     ELSE b.kernel_name[1],
     enable_retry |-> IF b.enable_retry = None THEN enable_retry_field
                      ELSE b.enable_retry[1]]

\* Faulty variant: the notebook is always passed through json.dumps.
get_ipynb_as_str_AlwaysDumps(self) == json_dumps(self.ipynb)

\* PostNotebookRequest.get_ipynb_as_str: isinstance(self.ipynb, str) is the
\* tag test.
get_ipynb_as_str(self) ==
    IF self.ipynb.t = "str" THEN self.ipynb.v ELSE json_dumps(self.ipynb)

\* request.url_for(name, job_id=...): the URL of the named route under the
\* request's base URL, with the path parameter filled in.
url_for(req, name, job_id) ==
    [base_url |-> req.base_url, route |-> name, job_id |-> job_id]

\* Faulty variant: the result fields fall back to values made up from the job.
from_job_metadata_FabricatedDefaults(j, req, inc, res) ==
    [job_id |-> j.id,
     enqueue_time |-> j.enqueue_time,
     status |-> j.status,
     kernel_name |-> j.kwargs.kernel_name,
     source |-> IF inc THEN Some(j.kwargs.ipynb) ELSE None,
     self_url |-> url_for(req, "get_nbexec_job", j.id),
     start_time |-> IF res # None THEN Some(res[1].start_time) ELSE Some(j.enqueue_time),
     finish_time |-> IF res # None THEN Some(res[1].finish_time) ELSE None,
     success |-> IF res # None THEN Some(res[1].success) ELSE Some(FALSE),
     ipynb |-> IF res # None THEN res[1].result ELSE None]

\* Faulty variant: the source is included once a result is there, not on request.
from_job_metadata_SourceWithResult(j, req, inc, res) ==
    [job_id |-> j.id,
     enqueue_time |-> j.enqueue_time,
     status |-> j.status,
     kernel_name |-> j.kwargs.kernel_name,
     source |-> IF res # None THEN Some(j.kwargs.ipynb) ELSE None,
     self_url |-> url_for(req, "get_nbexec_job", j.id),
     start_time |-> IF res # None THEN Some(res[1].start_time) ELSE None,
     finish_time |-> IF res # None THEN Some(res[1].finish_time) ELSE None,
     success |-> IF res # None THEN Some(res[1].success) ELSE None,
     ipynb |-> IF res # None THEN res[1].result ELSE None]

\* Faulty variant: kernel_name is not passed, so the field default is used.
from_job_metadata_DefaultKernel(j, req, inc, res) ==
    [job_id |-> j.id,
     enqueue_time |-> j.enqueue_time,
     status |-> j.status,
     kernel_name |-> kernel_name_field,
     source |-> IF inc THEN Some(j.kwargs.ipynb) ELSE None,
     self_url |-> url_for(req, "get_nbexec_job", j.id),
     start_time |-> IF res # None THEN Some(res[1].start_time) ELSE None,
     finish_time |-> IF res # None THEN Some(res[1].finish_time) ELSE None,
     success |-> IF res # None THEN Some(res[1].success) ELSE None,
     ipynb |-> IF res # None THEN res[1].result ELSE None]

\* Faulty variant: self_url is resolved without the job id.
from_job_metadata_UrlWithoutJob(j, req, inc, res) ==
    [job_id |-> j.id,
     enqueue_time |-> j.enqueue_time,
     status |-> j.status,
     kernel_name |-> j.kwargs.kernel_name,
     source |-> IF inc THEN Some(j.kwargs.ipynb) ELSE None,
     self_url |-> url_for(req, "get_nbexec_job", ""),
     start_time |-> IF res # None THEN Some(res[1].start_time) ELSE None,
     finish_time |-> IF res # None THEN Some(res[1].finish_time) ELSE None,
     success |-> IF res # None THEN Some(res[1].success) ELSE None,
     ipynb |-> IF res # None THEN res[1].result ELSE None]

\* NotebookResponse.from_job_metadata.  "if job_result" is the None test.
from_job_metadata(j, req, inc, res) ==
    [job_id |-> j.id,
     enqueue_time |-> j.enqueue_time,
     status |-> j.status,
     kernel_name |-> j.kwargs.kernel_name,
     source |-> IF inc THEN Some(j.kwargs.ipynb) ELSE None,
     self_url |-> url_for(req, "get_nbexec_job", j.id),
     start_time |-> IF res # None THEN Some(res[1].start_time) ELSE None,
     finish_time |-> IF res # None THEN Some(res[1].finish_time) ELSE None,
     success |-> IF res # None THEN Some(res[1].success) ELSE None,
     ipynb |-> IF res # None THEN res[1].result ELSE None]

\* ------------------------------------------------------------ input domains
\* Notebooks as JSON objects.
EmptyCells == [t |-> "list", v |-> << >>]

NotebookObjects ==
    { [t |-> "dict", v |-> << >>],
      [t |-> "dict", v |-> << <<"cells", EmptyCells>> >>],
      [t |-> "dict", v |-> << <<"cells", EmptyCells>>,
                              <<"nbformat", [t |-> "int", v |-> 4]>> >>],
      [t |-> "dict", v |-> << <<"metadata",
                                [t |-> "dict",
                                 v |-> << <<"name", [t |-> "str", v |-> "nb"]>> >>]>> >>] }

\* Notebooks as strings: JSON text and text that is not JSON.
NotebookStrings ==
    { [t |-> "str", v |-> "{\"cells\": []}"],
      [t |-> "str", v |-> "{\"cells\":[]}"],
      [t |-> "str", v |-> "not json {"],
      [t |-> "str", v |-> ""] }

KernelNames == {"LSST", "python3"}

AllBodies ==
    [ipynb : NotebookObjects \cup NotebookStrings,
     kernel_name : {None} \cup {Some(k) : k \in KernelNames},
     enable_retry : {None} \cup {Some(x) : x \in BOOLEAN}]

Requests == {[base_url |-> "https://data.example.org"],
             [base_url |-> "https://data-int.example.org"]}

\* The output notebooks a worker returns: the executed ipynb, or nothing.
ResultPayloads == {None, Some("{\"cells\": [], \"executed\": 1}")}

Init ==
    /\ body = [j \in JobIds |-> None]
    /\ post_request = [j \in JobIds |-> None]
    /\ queue = [j \in JobIds |-> None]
    /\ pc = [h \in Handlers |-> "idle"]
    /\ job = [h \in Handlers |-> None]
    /\ job_result = [h \in Handlers |-> None]
    /\ include_source = [h \in Handlers |-> FALSE]
    /\ request = [h \in Handlers |-> CHOOSE r \in Requests : TRUE]
    /\ response = [h \in Handlers |-> None]

hvars == <<pc, job, job_result, include_source, request, response>>

\* ------------------------------------------------------------ POST handler
\* The client's document is parsed to a PostNotebookRequest.
Post(j, b) ==
    /\ body[j] = None
    /\ body' = [body EXCEPT ![j] = Some(b)]
    /\ post_request' = [post_request EXCEPT ![j] = Some(PostNotebookRequest(b))]
    /\ UNCHANGED <<queue, hvars>>

\* The job is enqueued with the normalised notebook and the kernel name.
Enqueue(j, t) ==
    /\ post_request[j] # None
    /\ queue[j] = None
    /\ LET r == post_request[j][1] IN
       queue' = [queue EXCEPT ![j] =
                    Some([id |-> j,
                          enqueue_time |-> t,
                          status |-> "queued",
                          kwargs |-> [ipynb |-> get_ipynb_as_str(r),
                                      kernel_name |-> r.kernel_name,
                                      enable_retry |-> r.enable_retry],
                          result |-> None])]
    /\ UNCHANGED <<body, post_request, hvars>>

SetStatus(j, s, res) ==
    queue' = [queue EXCEPT ![j] = Some([queue[j][1] EXCEPT !.status = s, !.result = res])]

HasStatus(j, S) == queue[j] # None /\ queue[j][1].status \in S

\* --------------------------------------------------------------- arq worker
Start(j) ==
    /\ HasStatus(j, {"queued"})
    /\ SetStatus(j, "in_progress", None)
    /\ UNCHANGED <<body, post_request, hvars>>

Defer(j) ==
    /\ HasStatus(j, {"queued"})
    /\ SetStatus(j, "deferred", None)
    /\ UNCHANGED <<body, post_request, hvars>>

Retry(j) ==
    /\ HasStatus(j, {"in_progress"})
    /\ queue[j][1].kwargs.enable_retry
    /\ SetStatus(j, "deferred", None)
    /\ UNCHANGED <<body, post_request, hvars>>

Requeue(j) ==
    /\ HasStatus(j, {"deferred"})
    /\ SetStatus(j, "queued", None)
    /\ UNCHANGED <<body, post_request, hvars>>

\* The worker finishes: the notebook ran (success, with the executed ipynb) or
\* failed (with partial output or none).  Times are the worker's clock readings.
Finish(j, st, ft, ok, out) ==
    /\ HasStatus(j, {"in_progress"})
    /\ ok => out # None
    /\ SetStatus(j, "complete",
                 Some([start_time |-> st, finish_time |-> ft,
                       success |-> ok, result |-> out]))
    /\ UNCHANGED <<body, post_request, hvars>>

\* ------------------------------------------------------------- GET handler
JobMetadata(q) ==
    [id |-> q.id, enqueue_time |-> q.enqueue_time, status |-> q.status,
     kwargs |-> q.kwargs]

ReadJob(h, j, inc, req) ==
    /\ pc[h] \in {"idle", "done"}
    /\ queue[j] # None
    /\ pc' = [pc EXCEPT ![h] = "metadata"]
    /\ job' = [job EXCEPT ![h] = Some(JobMetadata(queue[j][1]))]
    /\ job_result' = [job_result EXCEPT ![h] = None]
    /\ include_source' = [include_source EXCEPT ![h] = inc]
    /\ request' = [request EXCEPT ![h] = req]
    /\ response' = [response EXCEPT ![h] = None]
    /\ UNCHANGED <<body, post_request, queue>>

ReadResult(h) ==
    /\ pc[h] = "metadata"
    /\ pc' = [pc EXCEPT ![h] = "result"]
    /\ job_result' = [job_result EXCEPT ![h] = queue[job[h][1].id][1].result]
    /\ UNCHANGED <<body, post_request, queue, job, include_source, request, response>>

SkipResult(h) ==
    /\ pc[h] = "metadata"
    /\ pc' = [pc EXCEPT ![h] = "result"]
    /\ UNCHANGED <<body, post_request, queue, job, job_result, include_source,
                   request, response>>

\* Faulty variant: the arguments are kept in state the handlers share, so a call
\* may project the arguments another handler stored.
Respond_SharedArguments(h) ==
    /\ pc[h] = "result"
    /\ pc' = [pc EXCEPT ![h] = "done"]
    /\ \E g \in {x \in DOMAIN pc : pc[x] \in {"result", "done"}} :
          response' = [response EXCEPT ![h] =
                          Some(from_job_metadata(job[g][1], request[g],
                                                 include_source[g], job_result[g]))]
    /\ UNCHANGED <<body, post_request, queue, job, job_result, include_source, request>>

\* The handler returns the projection of what it read.
Respond(h) ==
    /\ pc[h] = "result"
    /\ pc' = [pc EXCEPT ![h] = "done"]
    /\ response' = [response EXCEPT ![h] =
                       Some(from_job_metadata(job[h][1], request[h],
                                              include_source[h], job_result[h]))]
    /\ UNCHANGED <<body, post_request, queue, job, job_result, include_source, request>>

\* ------------------------------------------------------------ specification
\* The steps over job ids J, handlers H, posted bodies B, clock readings T and
\* worker outputs P.
NextOver(J, H, B, T, P) ==
    \/ \E j \in J, b \in B : Post(j, b)
    \/ \E j \in J, t \in T : Enqueue(j, t)
    \/ \E j \in J : Start(j)
    \/ \E j \in J : Defer(j)
    \/ \E j \in J : Retry(j)
    \/ \E j \in J : Requeue(j)
    \/ \E j \in J, st \in T, ft \in T, ok \in BOOLEAN, out \in P :
          Finish(j, st, ft, ok, out)
    \/ \E h \in H, j \in J, inc \in BOOLEAN, req \in Requests :
          ReadJob(h, j, inc, req)
    \/ \E h \in H : ReadResult(h)
    \/ \E h \in H : SkipResult(h)
    \/ \E h \in H : Respond(h)

\* One job polled by one handler, over every body, clock reading and output.
Next == NextOver({"abc123"}, {"h1"}, AllBodies, Times, ResultPayloads)

Spec == Init /\ [][Next]_vars

\* Submissions alone: two jobs over every body.
NextSubmit ==
    \/ \E j \in JobIds, b \in AllBodies : Post(j, b)
    \/ \E j \in JobIds, t \in Times : Enqueue(j, t)

SpecSubmit == Init /\ [][NextSubmit]_vars

\* Two jobs polled by two concurrent handlers.
BodyObject ==
    [ipynb |-> [t |-> "dict", v |-> << <<"cells", EmptyCells>> >>],
     kernel_name |-> Some("python3"), enable_retry |-> None]

NextConcurrent ==
    NextOver(JobIds, Handlers, {BodyObject}, {0}, ResultPayloads)

SpecConcurrent == Init /\ [][NextConcurrent]_vars

\* ------------------------------------------------------------------ claims
Done(h) == pc[h] = "done"

Resp(h) == response[h][1]

Arg(h) == job[h][1]

ResultFields(r) == <<r.start_time, r.finish_time, r.success, r.ipynb>>

\* C1: whenever a job result is supplied, the response carries start_time,
\* finish_time, success and ipynb all together, never a proper subset.
C1_ResultFieldsAllOrNothing ==
    \A h \in Handlers :
        (Done(h) /\ job_result[h] # None) =>
            \A i \in 1 .. 4 : ResultFields(Resp(h))[i] # None

\* C2: when no job result is supplied, start_time, finish_time, success and
\* ipynb are all null, whatever the job's status and include_source.
C2_NoResultNoResultFields ==
    \A h \in Handlers :
        (Done(h) /\ job_result[h] = None) =>
            ResultFields(Resp(h)) = <<None, None, None, None>>

C2_Witness ==
    \E h \in Handlers :
        /\ Done(h) /\ job_result[h] = None /\ include_source[h]
        /\ Resp(h).status = "complete"
        /\ Resp(h).source # None

\* C3: source is present exactly when include_source is true, and then it is
\* the notebook text of the job's submission parameters; this does not depend
\* on the status or on a job result being supplied.
C3_SourceIffRequested ==
    \A h \in Handlers :
        Done(h) =>
            /\ include_source[h] => Resp(h).source = Some(Arg(h).kwargs.ipynb)
            /\ ~include_source[h] => Resp(h).source = None
            /\ Arg(h).kwargs.ipynb = queue[Arg(h).id][1].kwargs.ipynb

C3_Witness ==
    \E h \in Handlers :
        /\ Done(h) /\ ~include_source[h] /\ job_result[h] # None
        /\ Resp(h).source = None /\ Resp(h).ipynb # None

\* C4: a supplied job result whose finish time is earlier than its start time
\* makes the projection fail: no response is returned for it.
C4_InconsistentResultRejected ==
    \A h \in Handlers :
        (/\ pc[h] = "done"
         /\ job_result[h] # None
         /\ job_result[h][1].finish_time < job_result[h][1].start_time)
            => response[h] = None

\* The JSON text Python's json.dumps gives for each notebook object.
JsonText(o) ==
    CASE o.v = << >> -> "{}"
      [] Len(o.v) = 1 /\ o.v[1][1] = "cells" -> "{\"cells\": []}"
      [] Len(o.v) = 2 -> "{\"cells\": [], \"nbformat\": 4}"
      [] Len(o.v) = 1 /\ o.v[1][1] = "metadata" -> "{\"metadata\": {\"name\": \"nb\"}}"

\* C5: the notebook handed to the queue is a single string: the posted string
\* itself (JSON or not), or the JSON serialisation of the posted object; the
\* request is as it was parsed.
C5_Normalized ==
    \A j \in JobIds :
        queue[j] # None =>
            LET b == body[j][1]
                nb == queue[j][1].kwargs.ipynb IN
            /\ b.ipynb.t = "str" => nb = b.ipynb.v
            /\ b.ipynb.t = "dict" => nb = JsonText(b.ipynb)
            /\ post_request[j] = Some(PostNotebookRequest(b))
            /\ post_request[j][1].ipynb = b.ipynb

C5_Witness ==
    /\ queue["abc123"] # None /\ queue["def456"] # None
    /\ body["abc123"][1].ipynb = [t |-> "str", v |-> "not json {"]
    /\ queue["abc123"][1].kwargs.ipynb = "not json {"
    /\ body["def456"][1].ipynb.t = "dict"
    /\ queue["def456"][1].kwargs.ipynb = "{\"cells\": [], \"nbformat\": 4}"

\* C6: job_id, enqueue_time, status and kernel_name of every response are the
\* job's id, enqueue time, status and recorded kernel name, and self_url is
\* present, with or without a job result and for both include_source values.
C6_MetadataFields ==
    \A h \in Handlers :
        Done(h) =>
            /\ Resp(h).job_id = Arg(h).id
            /\ Resp(h).enqueue_time = Arg(h).enqueue_time
            /\ Resp(h).status = Arg(h).status
            /\ Resp(h).kernel_name = Arg(h).kwargs.kernel_name
            /\ Resp(h).enqueue_time = queue[Arg(h).id][1].enqueue_time
            /\ Resp(h).kernel_name = queue[Arg(h).id][1].kwargs.kernel_name
            /\ Resp(h).status \in JobStatus
            /\ Resp(h).self_url.route = "get_nbexec_job"

C6_Witness ==
    \E h \in Handlers :
        /\ Done(h) /\ job_result[h] = None
        /\ Resp(h).job_id = "abc123"
        /\ Resp(h).status = "in_progress"
        /\ Resp(h).kernel_name = "python3"
        /\ Resp(h).enqueue_time = 1

\* C7 as stated: two projections with the same request context have the same
\* self_url, whatever the jobs.
C7_SelfUrlIndependentOfJob ==
    \A h1, h2 \in Handlers :
        (Done(h1) /\ Done(h2) /\ request[h1] = request[h2]) =>
            Resp(h1).self_url = Resp(h2).self_url

\* C7 amended: self_url is the URL the request context resolves for the
\* job's id: it names the job id, and two projections with the same request
\* context and the same job id have the same self_url whatever the status.
C7_SelfUrlFromRequestAndJobId ==
    /\ \A h \in Handlers :
        Done(h) =>
            /\ Resp(h).self_url.job_id = Arg(h).id
            /\ Resp(h).self_url.base_url = request[h].base_url
    /\ \A h1, h2 \in Handlers :
        (/\ Done(h1) /\ Done(h2)
         /\ request[h1] = request[h2]
         /\ Arg(h1).id = Arg(h2).id) =>
            Resp(h1).self_url = Resp(h2).self_url

C7_Witness ==
    /\ Done("h1") /\ Done("h2")
    /\ request["h1"] = request["h2"]
    /\ Arg("h1").id = Arg("h2").id
    /\ Arg("h1").status = "queued" /\ Arg("h2").status = "complete"
    /\ Resp("h1").self_url = Resp("h2").self_url

\* C8: every response is the projection of its own call's arguments, equal
\* arguments give equal responses, and a call changes neither its arguments,
\* nor the queue, nor any other call's arguments or response.
C8_Inv ==
    /\ \A h \in Handlers :
        Done(h) =>
            response[h] = Some(from_job_metadata(Arg(h), request[h],
                                                 include_source[h], job_result[h]))
    /\ \A h1, h2 \in Handlers :
        (/\ Done(h1) /\ Done(h2)
         /\ job[h1] = job[h2] /\ job_result[h1] = job_result[h2]
         /\ include_source[h1] = include_source[h2]
         /\ request[h1] = request[h2]) =>
            response[h1] = response[h2]

C8_Step ==
    \A h \in Handlers :
        (pc[h] = "result" /\ pc'[h] = "done") =>
            /\ UNCHANGED <<queue, job, job_result, include_source, request>>
            /\ \A g \in Handlers \ {h} : response'[g] = response[g] /\ pc'[g] = pc[g]

C9_ResultOnlyWhenComplete ==
    \A h \in Handlers :
        (Done(h) /\ \E i \in 1 .. 4 : ResultFields(Resp(h))[i] # None) =>
            Resp(h).status = "complete"

\* C10: every response for a job shows the kernel name recorded at submission
\* (LSST when the body named none) and, when the source is requested, the
\* normalised notebook string produced at submission.
C10_SubmissionReappears ==
    \A h \in Handlers :
        Done(h) =>
            LET b == body[Arg(h).id][1] IN
            /\ b.kernel_name = None => Resp(h).kernel_name = "LSST"
            /\ b.kernel_name # None => Resp(h).kernel_name = b.kernel_name[1]
            /\ include_source[h] =>
                  Resp(h).source = Some(get_ipynb_as_str(post_request[Arg(h).id][1]))
            /\ b.ipynb.t = "str" /\ include_source[h] => Resp(h).source = Some(b.ipynb.v)

C10_Witness ==
    \E h \in Handlers :
        /\ Done(h) /\ include_source[h] /\ job_result[h] # None
        /\ body[Arg(h).id][1].kernel_name = None
        /\ body[Arg(h).id][1].ipynb.t = "dict"
        /\ Resp(h).kernel_name = "LSST"
        /\ Resp(h).status = "complete"
        /\ Resp(h).source = Some("{\"cells\": []}")

====
